---- MODULE Spec2Model ----
(***************************************************************************)
(* Verification model of DBTRefactorAnalyzer (src/refactoring_analyzer.py):*)
(* the dependency graph and its queries, the redundant-reference and       *)
(* rejoin detectors, the similarity engine, the complexity scorer and the  *)
(* SQL refactoring generator.                                              *)
(*                                                                         *)
(* Every `def f(self, ...)` of the file is modelled as a method of the     *)
(* class, whatever its indentation in the listing.                         *)
(***************************************************************************)
EXTENDS Integers, Sequences, FiniteSets, TLC

\* ------------------------------------------------------------------ bounds
NumIds == 3
MaxEdges == 3
MaxDepth == 2
MaxCount == 4
MaxMinor == 1
MaxCtes == 2
MaxReportEdges == 5
MaxCteEdges == 5
MaxCombineEdges == 3
MaxJoins == 2

\* --------------------------------------------------------- program constants
ScoreFactor == 5
ScoreCap == 100
ScoreTripWire == 70
JoinTripWire == 5
RefTripWire == 5
LengthTripWire == 1000

\* ------------------------------------------------------------ identifiers
IdNames ==
    << "model.shop.fct_orders", "model.shop.int_orders",
       "model.shop.stg_customers", "model.shop.int_payments",
       "model.shop.dim_dates", "model.shop.int_refunds" >>

\* model['name'] / unique_id.split('.')[-1] of the same nodes
LeafNames ==
    << "fct_orders", "int_orders", "stg_customers", "int_payments",
       "dim_dates", "int_refunds" >>

NameOf(id) == LeafNames[CHOOSE i \in 1..Len(IdNames) : IdNames[i] = id]

\* the 'model.'-prefixed identifiers a manifest may use
\* every id of the form 'model.<project>.<name>'
AllModelIds == { IdNames[i] : i \in 1..Len(IdNames) }

\* the ids a manifest within the bounds may use
ModelIds == { IdNames[i] : i \in 1..NumIds }

\* an identifier that is not 'model.'-prefixed (a dbt source)
SourceId == "source.shop.raw_orders"

DepTargets == ModelIds \cup {SourceId}

\* dep.startswith('model.')
StartsWithModel(id) == id \in AllModelIds

\* the models of the orders scenario
FctOrders == "model.shop.fct_orders"
IntOrders == "model.shop.int_orders"
StgCustomers == "model.shop.stg_customers"

VARIABLES
    models,            \* self.models: the ids of the manifest nodes of resource_type 'model'
    depends_on,        \* model id -> model['depends_on']['nodes']
    raw_sql,           \* model id -> model.get('raw_sql', ''), as an abstract SQL text
    dependency_graph,  \* self.dependency_graph (a defaultdict(set)): key -> set of ids
    column_cache,      \* self.column_cache: model id -> set of column names
    args,              \* the arguments of the operation under check
    call               \* the last operation run on the analyzer, with its outcome

vars == << models, depends_on, raw_sql, dependency_graph, column_cache, args, call >>

\* ------------------------------------------------------------- helpers
RECURSIVE SetToSeq(_)
SetToSeq(S) ==
    IF S = {} THEN << >>
    ELSE LET x == CHOOSE y \in S : TRUE IN << x >> \o SetToSeq(S \ {x})

RECURSIVE SumOver(_, _)
SumOver(f, S) ==
    IF S = {} THEN 0
    ELSE LET x == CHOOSE y \in S : TRUE IN f[x] + SumOver(f, S \ {x})

\* ------------------------------------------------------ dependency graph
\* build_dependency_graph without the startswith('model.') test of line 56
build_dependency_graph_unfiltered(ms, deps) ==
    [ m \in { x \in ms : deps[x] # {} } |-> deps[m] ]

\* graph = defaultdict(set); graph[model_id].add(dep) for the 'model.' deps:
\* a key exists only for a model with at least one such dep.
build_dependency_graph(ms, deps) ==
    [ m \in { x \in ms : \E d \in deps[x] : StartsWithModel(d) } |->
        { d \in deps[m] : StartsWithModel(d) } ]

\* the graph after self.dependency_graph[model_id] on the defaultdict(set):
\* a missing key is inserted with an empty set
graph_after_getitem(graph, model_id) ==
    [ k \in DOMAIN graph \cup {model_id} |->
        IF k \in DOMAIN graph THEN graph[k] ELSE {} ]

\* the graph after self.dependency_graph.get(model_id, set()): dict.get
\* inserts no key, also on a defaultdict
graph_after_get(graph, model_id) == graph

\* the graph after get_model_refs was called for each of the ids in turn
RECURSIVE graph_after_lookups(_, _)
graph_after_lookups(graph, ids) ==
    IF ids = << >> THEN graph
    ELSE graph_after_lookups(graph_after_get(graph, Head(ids)), Tail(ids))

\* self.dependency_graph.get(model_id, set())
get_model_refs(model_id) ==
    IF model_id \in DOMAIN dependency_graph
    THEN dependency_graph[model_id]
    ELSE {}

get_model_parents(model_id) ==
    { ref \in get_model_refs(model_id) : StartsWithModel(ref) }

get_model_children(model_id) ==
    { model \in DOMAIN dependency_graph : model_id \in dependency_graph[model] }

\* The while loop of get_all_ancestors; max_depth is {} for None and {k} for k.
RECURSIVE ancestors_loop(_, _, _, _)
ancestors_loop(to_visit, visited, ancestors, max_depth) ==
    IF to_visit = << >> THEN [ ancestors |-> ancestors, visited |-> visited ]
    ELSE
      LET current == Head(to_visit)[1]
          depth   == Head(to_visit)[2]
          rest    == Tail(to_visit)
      IN  IF current \in visited
          THEN ancestors_loop(rest, visited, ancestors, max_depth)
          ELSE IF \E k \in max_depth : depth > k
          THEN ancestors_loop(rest, visited, ancestors, max_depth)
          ELSE
            LET parents == get_model_parents(current)
                order   == SetToSeq(parents)
                pushed  == [ i \in 1..Len(order) |-> << order[i], depth + 1 >> ]
            IN  ancestors_loop(rest \o pushed, visited \cup {current},
                               ancestors \cup parents, max_depth)

get_all_ancestors(model_id, max_depth) ==
    ancestors_loop(<< << model_id, 0 >> >>, {}, {}, max_depth).ancestors

RECURSIVE descendants_loop(_, _, _, _)
descendants_loop(to_visit, visited, descendants, max_depth) ==
    IF to_visit = << >> THEN [ descendants |-> descendants, visited |-> visited ]
    ELSE
      LET current == Head(to_visit)[1]
          depth   == Head(to_visit)[2]
          rest    == Tail(to_visit)
      IN  IF current \in visited
          THEN descendants_loop(rest, visited, descendants, max_depth)
          ELSE IF \E k \in max_depth : depth > k
          THEN descendants_loop(rest, visited, descendants, max_depth)
          ELSE
            LET children == get_model_children(current)
                order    == SetToSeq(children)
                pushed   == [ i \in 1..Len(order) |-> << order[i], depth + 1 >> ]
            IN  descendants_loop(rest \o pushed, visited \cup {current},
                                 descendants \cup children, max_depth)

get_all_descendants(model_id, max_depth) ==
    descendants_loop(<< << model_id, 0 >> >>, {}, {}, max_depth).descendants

\* The same two loops with the order of the expansions kept: `expanded` holds
\* the ids for which the loop got past both `continue`s, in the order of
\* visited.add(current); visited is the set of its elements.
SeqRange(seq) == { seq[i] : i \in 1..Len(seq) }

\* the loop with the visited test dropped for the first NumIds levels
RECURSIVE ancestors_expansions_revisiting(_, _, _)
ancestors_expansions_revisiting(to_visit, expanded, max_depth) ==
    IF to_visit = << >> THEN expanded
    ELSE
      LET current == Head(to_visit)[1]
          depth   == Head(to_visit)[2]
          rest    == Tail(to_visit)
      IN  IF current \in SeqRange(expanded) /\ depth > NumIds
          THEN ancestors_expansions_revisiting(rest, expanded, max_depth)
          ELSE IF \E k \in max_depth : depth > k
          THEN ancestors_expansions_revisiting(rest, expanded, max_depth)
          ELSE
            LET order  == SetToSeq(get_model_parents(current))
                pushed == [ i \in 1..Len(order) |-> << order[i], depth + 1 >> ]
            IN  ancestors_expansions_revisiting(rest \o pushed,
                                                Append(expanded, current), max_depth)

RECURSIVE ancestors_expansions(_, _, _)
ancestors_expansions(to_visit, expanded, max_depth) ==
    IF to_visit = << >> THEN expanded
    ELSE
      LET current == Head(to_visit)[1]
          depth   == Head(to_visit)[2]
          rest    == Tail(to_visit)
      IN  IF current \in SeqRange(expanded)
          THEN ancestors_expansions(rest, expanded, max_depth)
          ELSE IF \E k \in max_depth : depth > k
          THEN ancestors_expansions(rest, expanded, max_depth)
          ELSE
            LET order  == SetToSeq(get_model_parents(current))
                pushed == [ i \in 1..Len(order) |-> << order[i], depth + 1 >> ]
            IN  ancestors_expansions(rest \o pushed, Append(expanded, current), max_depth)

RECURSIVE descendants_expansions(_, _, _)
descendants_expansions(to_visit, expanded, max_depth) ==
    IF to_visit = << >> THEN expanded
    ELSE
      LET current == Head(to_visit)[1]
          depth   == Head(to_visit)[2]
          rest    == Tail(to_visit)
      IN  IF current \in SeqRange(expanded)
          THEN descendants_expansions(rest, expanded, max_depth)
          ELSE IF \E k \in max_depth : depth > k
          THEN descendants_expansions(rest, expanded, max_depth)
          ELSE
            LET order  == SetToSeq(get_model_children(current))
                pushed == [ i \in 1..Len(order) |-> << order[i], depth + 1 >> ]
            IN  descendants_expansions(rest \o pushed, Append(expanded, current), max_depth)


\* ------------------------------------------------------------- SQL texts
\* A SQL text is modelled by what parse_sql_components and the regular
\* expressions of the analyzer read from it:
\*   text        a label; "" for a missing or empty raw_sql
\*   config      whether a {{ config(...) }} block leads the text
\*   ctes        the CTEs in order, each with its name, the names of its
\*               ref() calls, its column tokens, its WHERE strings, the constant
\*               flag, the words its body mentions (CTE names, identifiers), its
\*               JOIN <target> ON <cols> conditions and the phrases 'select
\*               distinct', 'row_number()', 'partition by' found in it
\*   main_query  the columns of the final select list, the names of its ref()
\*               calls, the CTE names it mentions, the conjuncts of its WHERE
\*               clause and its keyword counts
\*   sql_counts  the keyword counts of the whole text
\*   length      len(sql)
NoCounts ==
    [ joins |-> 0, left_joins |-> 0, inner_joins |-> 0, group_by |-> 0,
      window_funcs |-> 0, unions |-> 0, case_statements |-> 0,
      aggregations |-> 0, filters |-> 0, partition_by |-> 0, ranking |-> 0 ]

Main(select, refs, mentions, where, counts) ==
    [ select |-> select, refs |-> refs, mentions |-> mentions, where |-> where,
      counts |-> counts ]

Cte(name, dependencies, columns_used, filters, is_constant, mentions, joins, patterns) ==
    [ name |-> name, dependencies |-> dependencies, columns_used |-> columns_used,
      filters |-> filters, is_constant |-> is_constant, mentions |-> mentions,
      joins |-> joins, patterns |-> patterns ]

Sql(text, config, ctes, main_query, sql_counts, length) ==
    [ text |-> text, config |-> config, ctes |-> ctes, main_query |-> main_query,
      sql_counts |-> sql_counts, length |-> length ]

EmptySql == Sql("", FALSE, << >>, Main({}, {}, {}, << >>, NoCounts), NoCounts, 0)

\* select id from t
PlainSql ==
    Sql("select id from t", FALSE, << >>,
        Main({"id"}, {}, {}, << >>, NoCounts), NoCounts, 16)

\* with joined as (select base.id from base join <id> on base.id = x.id where ..)
\* select id from joined   -- with one such join for every model id
JoinSql ==
    Sql("with joined as (... join <id> on base.id = x.id where ...) select id from joined",
        FALSE,
        << Cte("joined", {}, {"id"}, << >>, FALSE, ModelIds,
               { [ target |-> id, cols |-> {"id"} ] : id \in ModelIds }, {}) >>,
        Main({"id"}, {}, {"joined"}, << >>, NoCounts),
        [ NoCounts EXCEPT !.joins = NumIds, !.filters = 1 ], 400)

Raise(err) == [ raised |-> err, value |-> {} ]
Return(v) == [ raised |-> "", value |-> v ]

\* sqlparse.parse(sql)[0] raises IndexError on an empty text (line 175);
\* otherwise the SQLComponent (config, ctes, main_query, column_refs).
parse_sql_components(sql) ==
    IF sql.text = "" THEN Raise("IndexError")
    ELSE Return([ config |-> sql.config, ctes |-> sql.ctes,
                  main_query |-> sql.main_query,
                  column_refs |-> { << sql.ctes[i].name, sql.ctes[i].columns_used >> :
                                      i \in 1..Len(sql.ctes) } ])

CteNames(component) == { component.ctes[i].name : i \in 1..Len(component.ctes) }
CteByName(component, n) ==
    component.ctes[CHOOSE i \in 1..Len(component.ctes) : component.ctes[i].name = n]

\* column_refs[n], for n one of the component's CTE names
ColumnRefs(component, n) == CteByName(component, n).columns_used

\* direct_deps.get(cte_name, set())
DirectDeps(component, cte_name) ==
    IF cte_name \in CteNames(component)
    THEN CteByName(component, cte_name).dependencies
    ELSE {}

\* get_all_deps whose lookup of a CTE under visit returns its direct
\* dependencies instead of the empty set
get_all_deps_seen_returns_direct(component, cte_name, seen, all_deps) ==
    [ deps |-> DirectDeps(component, cte_name), seen |-> seen, all_deps |-> all_deps ]

\* get_all_deps(cte_name, seen) with the memo all_deps: the triple
\* (deps, seen, all_deps) after the call.
RECURSIVE get_all_deps(_, _, _, _)
RECURSIVE get_all_deps_each(_, _, _, _, _)
get_all_deps(component, cte_name, seen, all_deps) ==
    IF cte_name \in seen
    THEN [ deps |-> {}, seen |-> seen, all_deps |-> all_deps ]
    ELSE IF cte_name \in DOMAIN all_deps
    THEN [ deps |-> all_deps[cte_name], seen |-> seen, all_deps |-> all_deps ]
    ELSE
      LET direct == DirectDeps(component, cte_name)
          r == get_all_deps_each(component, SetToSeq(direct), direct,
                                 seen \cup {cte_name}, all_deps)
      IN  [ deps |-> r.deps, seen |-> r.seen,
            all_deps |-> [ n \in DOMAIN r.all_deps \cup {cte_name} |->
                             IF n = cte_name THEN r.deps ELSE r.all_deps[n] ] ]

\* for dep in direct_deps.get(cte_name, set()): deps.update(get_all_deps(dep, seen))
get_all_deps_each(component, todo, deps, seen, all_deps) ==
    IF todo = << >>
    THEN [ deps |-> deps, seen |-> seen, all_deps |-> all_deps ]
    ELSE
      LET r == get_all_deps(component, Head(todo), seen, all_deps)
      IN  get_all_deps_each(component, Tail(todo), deps \cup r.deps, r.seen, r.all_deps)

\* for cte_name in direct_deps: if cte_name not in all_deps: all_deps[cte_name] = ...
RECURSIVE analyze_cte_dependencies_loop(_, _, _)
analyze_cte_dependencies_loop(component, i, all_deps) ==
    IF i > Len(component.ctes) THEN all_deps
    ELSE
      LET n == component.ctes[i].name
      IN  IF n \in DOMAIN all_deps
          THEN analyze_cte_dependencies_loop(component, i + 1, all_deps)
          ELSE
            LET r == get_all_deps(component, n, {}, all_deps)
            IN  analyze_cte_dependencies_loop(component, i + 1,
                  [ k \in DOMAIN r.all_deps \cup {n} |->
                      IF k = n THEN r.deps ELSE r.all_deps[k] ])

analyze_cte_dependencies(component) ==
    analyze_cte_dependencies_loop(component, 1, << >>)

\* The values of the lineage dict: one set per key "cte.col", holding the
\* column itself, <<col>>, and <<dep, col>> for every column of a dependency
\* that is a CTE of the component.
analyze_column_lineage(component) ==
    LET cte_deps == analyze_cte_dependencies(component)
        keys == { << n, col >> : n \in CteNames(component),
                    col \in UNION { ColumnRefs(component, d) :
                                      d \in CteNames(component) } }
        value(k) ==
            { << k[2] >> : x \in { y \in {k[2]} : y \in ColumnRefs(component, k[1]) } }
            \cup { << dep, k[2] >> :
                     dep \in { d \in cte_deps[k[1]] \cap CteNames(component) :
                                 k[2] \in ColumnRefs(component, d) } }
    IN  [ k \in { q \in keys : value(q) # {} } |-> value(k) ]

\* `ref in str(col)`: the identifier occurs in the printed set of strings
Mentions(ref, col) == \E s \in col : \E i \in 1..Len(s) : s[i] = ref

\* ------------------------------------------------------------- detectors
\* analyze_ref_necessity answering `necessary` where the code answers `not
\* necessary`
analyze_ref_necessity_inverted(model_id, direct_ref, indirect_ref) ==
    IF raw_sql[model_id].text = "" THEN [ raised |-> "IndexError", value |-> {} ]
    ELSE [ raised |-> "", value |-> FALSE ]

\* analyze_ref_necessity: the sets grandparent_cols and parent_cols are built
\* from the lineage values, which are Python sets: adding one to a set raises
\* TypeError (unhashable), so a value is selected only to raise.
analyze_ref_necessity(model_id, direct_ref, indirect_ref) ==
    LET parsed == parse_sql_components(raw_sql[model_id])
    IN  IF parsed.raised # "" THEN Raise(parsed.raised)
        ELSE
          LET column_lineage == analyze_column_lineage(parsed.value)
              values == { column_lineage[k] : k \in DOMAIN column_lineage }
              grandparent_cols == { col \in values : Mentions(indirect_ref, col) }
              parent_cols == { col \in values : Mentions(direct_ref, col) }
          IN  IF grandparent_cols # {} \/ parent_cols # {}
              THEN Raise("TypeError")
              ELSE Return((grandparent_cols \ parent_cols) = {})

RedundantFinding(model_id, parent_ref, grandparent) ==
    [ model |-> model_id, parent |-> parent_ref, grandparent |-> grandparent ]

\* redundant_candidates with `redundant = direct_refs` (no intersection with
\* the parent's refs)
redundant_candidates_no_intersection ==
    UNION { UNION { { << model_id, parent_ref, grandparent >> :
                        grandparent \in get_model_refs(model_id) } :
                      parent_ref \in get_model_refs(model_id) \cap models } :
              model_id \in models }

\* the (model, parent, grandparent) triples the loops of find_redundant_refs
\* hand to analyze_ref_necessity
redundant_candidates ==
    UNION { UNION { { << model_id, parent_ref, grandparent >> :
                        grandparent \in get_model_refs(model_id)
                                         \cap get_model_refs(parent_ref) } :
                      parent_ref \in get_model_refs(model_id) \cap models } :
              model_id \in models }

find_redundant_refs ==
    LET failing == { c \in redundant_candidates :
                       analyze_ref_necessity(c[1], c[2], c[3]).raised # "" }
    IN  IF failing # {}
        THEN Raise(analyze_ref_necessity((CHOOSE c \in failing : TRUE)[1],
                                         (CHOOSE c \in failing : TRUE)[2],
                                         (CHOOSE c \in failing : TRUE)[3]).raised)
        ELSE Return({ RedundantFinding(c[1], c[2], c[3]) :
                        c \in { d \in redundant_candidates :
                                  analyze_ref_necessity(d[1], d[2], d[3]).value } })

\* get_available_columns(model_id): the cached set, else the columns of the
\* final select of the model's SQL (set() for an id that is no model)
get_available_columns(model_id) ==
    IF model_id \in DOMAIN column_cache THEN Return(column_cache[model_id])
    ELSE IF model_id \notin models THEN Return({})
    ELSE
      LET parsed == parse_sql_components(raw_sql[model_id])
      IN  IF parsed.raised # "" THEN Raise(parsed.raised)
          ELSE Return(parsed.value.main_query.select)

\* the join conditions analyze_join_necessity extracts for `sibling`
join_conditions(component, sibling) ==
    UNION { { j \in component.ctes[i].joins : j.target = sibling } :
              i \in { k \in 1..Len(component.ctes) :
                        sibling \in component.ctes[k].mentions } }

analyze_join_necessity(model_id, parent, sibling) ==
    LET parsed == parse_sql_components(raw_sql[model_id])
    IN  IF parsed.raised # "" THEN Raise(parsed.raised)
        ELSE
          LET conds == join_conditions(parsed.value, sibling)
          IN  IF conds # {}
              THEN
                LET parent_cols == get_available_columns(parent)
                    join_cols == UNION { j.cols : j \in conds }
                IN  IF parent_cols.raised # "" THEN Raise(parent_cols.raised)
                    ELSE Return(join_cols \subseteq parent_cols.value)
              ELSE Return(FALSE)

RejoinFinding(model_id, parent, sibling) ==
    [ model |-> model_id, parent |-> parent, intermediate_model |-> sibling ]

\* rejoin_candidates without the len(sibling_children) == 1 test
rejoin_candidates_any_children ==
    UNION { UNION { { << model_id, parent, sibling >> :
                        sibling \in { t \in get_model_children(parent)
                                               \cap get_model_parents(model_id) :
                                        model_id \in get_model_children(t) } } :
                      parent \in get_model_parents(model_id) } :
              model_id \in models }

\* the (model, parent, sibling) triples that pass the two tests made before
\* analyze_join_necessity is called (the `and` short-circuits)
rejoin_candidates ==
    UNION { UNION { { << model_id, parent, sibling >> :
                        sibling \in { t \in get_model_children(parent)
                                               \cap get_model_parents(model_id) :
                                        /\ Cardinality(get_model_children(t)) = 1
                                        /\ model_id \in get_model_children(t) } } :
                      parent \in get_model_parents(model_id) } :
              model_id \in models }

find_rejoined_concepts ==
    LET failing == { c \in rejoin_candidates :
                       analyze_join_necessity(c[1], c[2], c[3]).raised # "" }
    IN  IF failing # {}
        THEN Raise(analyze_join_necessity((CHOOSE c \in failing : TRUE)[1],
                                          (CHOOSE c \in failing : TRUE)[2],
                                          (CHOOSE c \in failing : TRUE)[3]).raised)
        ELSE Return({ RejoinFinding(c[1], c[2], c[3]) :
                        c \in { d \in rejoin_candidates :
                                  analyze_join_necessity(d[1], d[2], d[3]).value } })

\* the parents whose columns find_rejoined_concepts computes and caches
cached_by_rejoin ==
    { p \in models :
        /\ p \notin DOMAIN column_cache
        /\ get_available_columns(p).raised = ""
        /\ \E c \in rejoin_candidates :
             /\ c[2] = p
             /\ parse_sql_components(raw_sql[c[1]]).raised = ""
             /\ join_conditions(parse_sql_components(raw_sql[c[1]]).value, c[3]) # {} }

CacheWith(ps) ==
    [ p \in DOMAIN column_cache \cup ps |->
        IF p \in DOMAIN column_cache THEN column_cache[p]
        ELSE get_available_columns(p).value ]

\* k.split('.')[-1].startswith('int_')
IsIntermediate(id) ==
    id \in { "model.shop.int_orders", "model.shop.int_payments",
             "model.shop.int_refunds" }

\* analyze_combination_feasibility(model1_id, model2_id)
analyze_combination_feasibility(model1_id, model2_id) ==
    IF model1_id \notin models \/ model2_id \notin models THEN Raise("KeyError")
    ELSE
      LET sql1 == parse_sql_components(raw_sql[model1_id])
          sql2 == parse_sql_components(raw_sql[model2_id])
      IN  IF sql1.raised # "" THEN Raise(sql1.raised)
          ELSE IF sql2.raised # "" THEN Raise(sql2.raised)
          ELSE
            LET conflicts == CteNames(sql1.value) \cap CteNames(sql2.value) # {}
                factor_count(sql) ==
                    (IF sql.main_query.counts.partition_by > 0 THEN 1 ELSE 0)
                    + (IF sql.main_query.counts.ranking > 0 THEN 1 ELSE 0)
                complexity_factors == factor_count(sql1.value) + factor_count(sql2.value)
            IN  Return([ shared_dependencies |->
                           get_model_refs(model1_id) \cap get_model_refs(model2_id),
                         shared_columns |->
                           get_available_columns(model1_id).value
                             \cap get_available_columns(model2_id).value,
                         conflicts |-> conflicts,
                         complexity_factors |-> complexity_factors,
                         feasible |-> ~conflicts /\ complexity_factors < 2 ])

CombinableFinding(model_id, related_model, pattern) ==
    [ model |-> model_id, related_model |-> related_model, pattern |-> pattern ]

\* combinable_candidates whose case 1 takes the single child whatever its name
\* (no startswith('int_') test on child_id)
combinable_candidates_any_child ==
    LET int_models == { k \in models : IsIntermediate(k) }
        single_child ==
            { << m, c >> \in int_models \X models : get_model_children(m) = {c} }
        single_parent ==
            { << m, q >> \in int_models \X { k \in AllModelIds : IsIntermediate(k) } :
                /\ get_model_parents(m) = {q}
                /\ Cardinality(get_model_children(q)) <= 2 }
    IN  { CombinableFinding(x[1], x[2], "single_child") : x \in single_child }
        \cup { CombinableFinding(x[1], x[2], "single_parent") : x \in single_parent }

\* the pairs the two cases of find_combinable_intermediates hand to
\* analyze_combination_feasibility
combinable_candidates ==
    LET int_models == { k \in models : IsIntermediate(k) }
        single_child ==
            { << m, c >> \in int_models \X models :
                /\ get_model_children(m) = {c}
                /\ IsIntermediate(c) }
        single_parent ==
            { << m, q >> \in int_models \X { k \in AllModelIds : IsIntermediate(k) } :
                /\ get_model_parents(m) = {q}
                /\ Cardinality(get_model_children(q)) <= 2 }
    IN  { CombinableFinding(x[1], x[2], "single_child") : x \in single_child }
        \cup { CombinableFinding(x[1], x[2], "single_parent") : x \in single_parent }

\* the errors a call of find_combinable_intermediates may end in (which one
\* comes first depends on the order of the manifest)
combinable_errors ==
    { analyze_combination_feasibility(c.model, c.related_model).raised :
        c \in combinable_candidates } \ { "" }

\* find_combinable_intermediates(), when no candidate raises
find_combinable_intermediates ==
    { c \in combinable_candidates :
        analyze_combination_feasibility(c.model, c.related_model).value.feasible }

\* the models whose columns find_combinable_intermediates computes and caches
cached_by_combinable ==
    { m \in models \ DOMAIN column_cache :
        \E c \in combinable_candidates :
          /\ m \in { c.model, c.related_model }
          /\ analyze_combination_feasibility(c.model, c.related_model).raised = "" }

\* the outcomes of find_combinable_intermediates(), each with the models whose
\* columns the run cached: `errors` are the errors it may end in, `combinable`
\* the list it returns when no candidate raises
find_combinable_outcomes(errors, combinable, by_combinable) ==
    IF errors # {}
    THEN { [ call |-> [ op |-> "find_combinable_intermediates", raised |-> err,
                        result |-> {} ],
             cached |-> ps ] : err \in errors, ps \in SUBSET by_combinable }
    ELSE { [ call |-> [ op |-> "find_combinable_intermediates", raised |-> "",
                        result |-> combinable ],
             cached |-> by_combinable ] }

\* ------------------------------------------------------ complexity scorer
Min(a, b) == IF a <= b THEN a ELSE b

\* the weights of _calculate_complexity_score, doubled (1.5 -> 3, 0.5 -> 1):
\* scores are kept in half points, so that 2 * score is an integer
weights ==
    [ ctes |-> 2, joins |-> 3, window_funcs |-> 4, aggregations |-> 2,
      case_statements |-> 1, dependencies |-> 2, filters |-> 1 ]

factors(sql_component) ==
    [ ctes |-> Len(sql_component.ctes),
      joins |-> sql_component.main_query.counts.joins,
      window_funcs |-> sql_component.main_query.counts.window_funcs,
      aggregations |-> sql_component.main_query.counts.aggregations,
      case_statements |-> sql_component.main_query.counts.case_statements,
      dependencies |-> Cardinality(UNION { sql_component.ctes[i].dependencies :
                                             i \in 1..Len(sql_component.ctes) }),
      filters |-> sql_component.main_query.counts.filters ]

\* sum(count * weights[factor] ...), in half points
weighted_score(sql_component) ==
    SumOver([ f \in DOMAIN weights |-> factors(sql_component)[f] * weights[f] ],
            DOMAIN weights)

\* _calculate_complexity_score without the min(100, ...)
calculate_complexity_score_unclamped(sql_component) ==
    weighted_score(sql_component) * ScoreFactor

\* _calculate_complexity_score: min(100, score * 5), in half points
calculate_complexity_score(sql_component) ==
    Min(2 * ScoreCap, weighted_score(sql_component) * ScoreFactor)

\* one row of get_model_complexity_metrics, for a model with a non-empty SQL
\* text and num_refs = len(model.get('refs', []))
metrics_row(sql, num_refs) ==
    [ num_joins |-> sql.sql_counts.joins,
      num_ctes |-> Len(parse_sql_components(sql).value.ctes),
      num_refs |-> num_refs,
      sql_length |-> sql.length,
      complexity_score |-> calculate_complexity_score(parse_sql_components(sql).value) ]

\* the row filter of generate_refactoring_report with `&` for its `|`
is_complex_all(row) ==
    /\ row.complexity_score > 2 * ScoreTripWire
    /\ row.num_joins > JoinTripWire
    /\ row.num_refs > RefTripWire
    /\ row.sql_length > LengthTripWire

\* the row filter `complex_models = metrics[...]` of generate_refactoring_report
is_complex(row) ==
    \/ row.complexity_score > 2 * ScoreTripWire
    \/ row.num_joins > JoinTripWire
    \/ row.num_refs > RefTripWire
    \/ row.sql_length > LengthTripWire

\* ------------------------------------------------------ similarity engine
\* get_model_signature, for a model with a non-empty SQL text
get_model_signature(model) ==
    LET sql_component == parse_sql_components(model.sql).value
        n == Len(sql_component.ctes)
        count(phrase) ==
            Cardinality({ i \in 1..n : phrase \in sql_component.ctes[i].patterns })
        found == [ distinct_selects |-> count("select distinct"),
                   row_numbers |-> count("row_number()"),
                   partitions |-> count("partition by") ]
    IN  [ refs |-> UNION { sql_component.ctes[i].dependencies : i \in 1..n },
          sources |-> model.sources,
          characteristics |->
            [ joins |-> model.sql.sql_counts.joins,
              left_joins |-> model.sql.sql_counts.left_joins,
              inner_joins |-> model.sql.sql_counts.inner_joins,
              group_by |-> model.sql.sql_counts.group_by,
              window_funcs |-> model.sql.sql_counts.window_funcs,
              ctes |-> n,
              unions |-> model.sql.sql_counts.unions,
              case_statements |-> model.sql.sql_counts.case_statements,
              aggregations |-> model.sql.sql_counts.aggregations,
              filters |-> model.sql.sql_counts.filters ],
          cte_patterns |-> [ k \in { q \in DOMAIN found : found[q] > 0 } |-> found[k] ],
          column_refs |-> [ c \in CteNames(sql_component) |->
                              ColumnRefs(sql_component, c) ] ]

\* the weights of calculate_similarity, in hundredths
sim_weights ==
    [ ref |-> 25, source |-> 15, char |-> 25, pattern |-> 15, column |-> 20 ]

Max(a, b) == IF a >= b THEN a ELSE b

\* the five sub-scores of calculate_similarity, each as a fraction n / d
sub_scores(sig1, sig2) ==
    LET pattern_keys == DOMAIN sig1.cte_patterns \cup DOMAIN sig2.cte_patterns
        get(sig, k) == IF k \in DOMAIN sig.cte_patterns
                       THEN {sig.cte_patterns[k]} ELSE {}
        all_cols == UNION { sig1.column_refs[c] : c \in DOMAIN sig1.column_refs }
                    \cup UNION { sig2.column_refs[c] : c \in DOMAIN sig2.column_refs }
        shared_cols == UNION { sig1.column_refs[c] \cap sig2.column_refs[c] :
                                 c \in DOMAIN sig1.column_refs \cap DOMAIN sig2.column_refs }
    IN  [ ref |-> [ n |-> Cardinality(sig1.refs \cap sig2.refs),
                    d |-> Max(Cardinality(sig1.refs \cup sig2.refs), 1) ],
          source |-> [ n |-> Cardinality(sig1.sources \cap sig2.sources),
                       d |-> Max(Cardinality(sig1.sources \cup sig2.sources), 1) ],
          char |-> [ n |-> Cardinality({ k \in DOMAIN sig1.characteristics :
                                          sig2.characteristics[k] = sig1.characteristics[k] }),
                     d |-> Cardinality(DOMAIN sig1.characteristics) ],
          pattern |-> IF pattern_keys # {}
                      THEN [ n |-> Cardinality({ k \in pattern_keys :
                                                  get(sig1, k) = get(sig2, k) }),
                             d |-> Cardinality(pattern_keys) ]
                      ELSE [ n |-> 1, d |-> 1 ],
          column |-> IF all_cols # {}
                     THEN [ n |-> Cardinality(shared_cols), d |-> Cardinality(all_cols) ]
                     ELSE [ n |-> 0, d |-> 1 ] ]

\* the weighted total of sub-scores s as the fraction num / den, den > 0
weighted_total(s) ==
    LET den == s.ref.d * s.source.d * s.char.d * s.pattern.d * s.column.d
    IN  [ num |-> SumOver([ k \in DOMAIN sim_weights |->
                              sim_weights[k] * s[k].n * (den \div s[k].d) ],
                          DOMAIN sim_weights),
          den |-> 100 * den ]

\* calculate_similarity whose column score counts the columns of sig1 only
\* (the second loop over sig2['column_refs'] left out)
calculate_similarity_sig1_columns(sig1, sig2) ==
    LET s == sub_scores(sig1, sig2)
        cols1 == UNION { sig1.column_refs[c] : c \in DOMAIN sig1.column_refs }
    IN  weighted_total([ s EXCEPT !.column =
                           IF cols1 # {}
                           THEN [ n |-> s.column.n, d |-> Cardinality(cols1) ]
                           ELSE [ n |-> 0, d |-> 1 ] ])

calculate_similarity(sig1, sig2) ==
    weighted_total(sub_scores(sig1, sig2))

\* the rough grouping key of find_similar_models
group_key(signature) ==
    << Cardinality(signature.refs), Cardinality(signature.sources),
       signature.characteristics.joins > 0,
       signature.characteristics.group_by > 0,
       DOMAIN signature.cte_patterns # {} >>

\* -------------------------------------------------- SQL refactoring generator
\* A WHERE string is a sequence of words; ref('<name>') is one word.
RefWords ==
    << "ref('fct_orders')", "ref('int_orders')", "ref('stg_customers')",
       "ref('int_payments')", "ref('dim_dates')", "ref('int_refunds')" >>

RefWord(name) == RefWords[CHOOSE i \in 1..Len(LeafNames) : LeafNames[i] = name]

\* re.sub(rf'\b{old_cte}\b', f"ref('{p_name}')", text) for every removed CTE
SubstituteWords(words, removed_ctes, p_name) ==
    [ i \in 1..Len(words) |->
        IF words[i] \in removed_ctes THEN RefWord(p_name) ELSE words[i] ]

\* process_cte_filters(cte), with the removed CTEs known at the time of the call
process_cte_filters(cte, removed_ctes, p_name) ==
    [ k \in 1..Len(cte.filters) |->
        SubstituteWords(cte.filters[k], removed_ctes, p_name) ]

\* should_remove_cte that removes every CTE referencing the grandparent
should_remove_cte_any_reference(cte, deps, removed_ctes, gp_name) ==
    gp_name \in cte.dependencies

\* should_remove_cte(cte_name, cte), with deps = analyze_cte_dependencies(...)
\* and the CTEs removed so far
should_remove_cte(cte, deps, removed_ctes, gp_name) ==
    IF gp_name \notin cte.dependencies THEN FALSE
    ELSE IF ~cte.is_constant /\ Cardinality(cte.columns_used) > Len(cte.filters)
    THEN FALSE
    ELSE
      LET dependent_ctes == { n \in DOMAIN deps : cte.name \in deps[n] }
      IN  (dependent_ctes \ removed_ctes) = {}

\* First pass: the removed CTEs in order, as the sequence of their indexes.
RECURSIVE first_pass(_, _, _, _, _)
first_pass(component, deps, gp_name, i, removed) ==
    IF i > Len(component.ctes) THEN removed
    ELSE
      LET names == { component.ctes[removed[k]].name : k \in 1..Len(removed) }
      IN  IF should_remove_cte(component.ctes[i], deps, names, gp_name)
          THEN first_pass(component, deps, gp_name, i + 1, Append(removed, i))
          ELSE first_pass(component, deps, gp_name, i + 1, removed)

RECURSIVE Flatten(_)
Flatten(seqs) ==
    IF seqs = << >> THEN << >> ELSE Head(seqs) \o Flatten(Tail(seqs))

Reverse(q) == [ i \in 1..Len(q) |-> q[Len(q) + 1 - i] ]

SelectIndexes(n, keep(_)) ==
    LET RECURSIVE pick(_)
        pick(i) == IF i > n THEN << >>
                   ELSE (IF keep(i) THEN << i >> ELSE << >>) \o pick(i + 1)
    IN  pick(1)

\* generate_refactored_sql(redundant_ref): `none` when it returns None, else
\* the parts of the returned dict; refactored_sql is the rewritten text in
\* the form of a SQL text (retained CTEs with their names substituted, the
\* main query with the merged WHERE conjuncts).
generate_refactored_sql(redundant_ref) ==
    IF ~({ redundant_ref.model, redundant_ref.parent, redundant_ref.grandparent }
           \subseteq models)
    THEN [ none |-> TRUE ]
    ELSE IF raw_sql[redundant_ref.model].text = ""
    THEN [ none |-> TRUE ]
    ELSE
      LET original_sql == raw_sql[redundant_ref.model]
          sql_component == parse_sql_components(original_sql).value
          deps == analyze_cte_dependencies(sql_component)
          gp_name == NameOf(redundant_ref.grandparent)
          p_name == NameOf(redundant_ref.parent)
          ctes == sql_component.ctes
          removed == first_pass(sql_component, deps, gp_name, 1, << >>)
          removed_upto(k) == { ctes[removed[j]].name : j \in 1..k }
          removed_ctes == removed_upto(Len(removed))
          \* merged_filters[cte_name], in the order of removal
          merged_filters ==
              Flatten([ k \in 1..Len(removed) |->
                          process_cte_filters(ctes[removed[k]], removed_upto(k), p_name) ])
          kept == SelectIndexes(Len(ctes), LAMBDA i : ctes[i].name \notin removed_ctes)
          touched(words) == words \cap removed_ctes # {}
          modified(cte) ==
              [ cte EXCEPT
                  !.dependencies =
                      (cte.dependencies \ removed_ctes)
                      \cup (IF touched(cte.dependencies \cup cte.mentions)
                            THEN {p_name} ELSE {}),
                  !.mentions = cte.mentions \ removed_ctes,
                  !.filters = process_cte_filters(cte, removed_ctes, p_name) ]
          refiltered ==
              SelectIndexes(Len(ctes), LAMBDA i :
                  /\ ctes[i].name \notin removed_ctes
                  /\ ctes[i].filters # << >>
                  /\ process_cte_filters(ctes[i], removed_ctes, p_name) # ctes[i].filters)
          main == sql_component.main_query
          main_where == [ k \in 1..Len(main.where) |->
                            SubstituteWords(main.where[k], removed_ctes, p_name) ]
          new_where ==
              IF merged_filters = << >> THEN main_where
              ELSE IF main.where # << >>
              THEN Reverse(merged_filters) \o main_where
              ELSE merged_filters
      IN  [ none |-> FALSE,
            original_sql |-> original_sql,
            refactored_sql |->
              [ config |-> sql_component.config,
                comment |-> << gp_name, p_name >>,
                ctes |-> [ k \in 1..Len(kept) |-> modified(ctes[kept[k]]) ],
                main_query |->
                  [ main EXCEPT
                      !.refs = (main.refs \ removed_ctes)
                               \cup (IF touched(main.refs \cup main.mentions)
                                     THEN {p_name} ELSE {}),
                      !.mentions = main.mentions \ removed_ctes,
                      !.where = new_where ] ],
            changes_made |->
              [ k \in 1..Len(removed) |->
                  [ change |-> "Removing CTE", cte |-> ctes[removed[k]].name ] ]
              \o [ k \in 1..Len(refiltered) |->
                     [ change |-> "Modified filters in CTE",
                       cte |-> ctes[refiltered[k]].name ] ],
            model_name |-> NameOf(redundant_ref.model),
            removed_ref |-> gp_name,
            use_parent |-> p_name,
            removed_ctes |-> removed_ctes,
            merged_filters |-> merged_filters ]

\* the names of the ref() calls a re-parse finds in a rewritten text: in its
\* CTEs, in its main query and in the words of its WHERE conjuncts
refs_of_text(sql) ==
    UNION { sql.ctes[i].dependencies : i \in 1..Len(sql.ctes) }
    \cup sql.main_query.refs
    \cup { n \in { LeafNames[i] : i \in 1..Len(LeafNames) } :
             \E k \in 1..Len(sql.main_query.where) :
               \E w \in 1..Len(sql.main_query.where[k]) :
                 sql.main_query.where[k][w] = RefWord(n) }

\* ------------------------------------------------------------------ report
\* the finding dict `ref` after the loop over `redundant` of
\* generate_refactoring_report, `refactored` being what generate_refactored_sql
\* returned for it: its three ids, the keys the loop added to it, and their
\* values ('' and [] stand for an absent key, as item.get reads them)
finding_after(ref, refactored) ==
    IF refactored.none
    THEN [ model |-> ref.model, parent |-> ref.parent,
           grandparent |-> ref.grandparent,
           added_keys |-> {}, sql_changes |-> << >>, refactored_file |-> << >> ]
    ELSE [ model |-> ref.model, parent |-> ref.parent,
           grandparent |-> ref.grandparent,
           added_keys |-> { "sql_changes", "refactored_file" },
           sql_changes |-> refactored.changes_made,
           refactored_file |-> << "refactored_models", refactored.model_name >> ]

\* the recommendation row without the file of the rewrite
redundant_recommendation_no_file(item) ==
    [ model |-> item.model, type |-> "redundant_ref",
      related_models |-> << item.parent, item.grandparent >>,
      refactored_file |-> << >>,
      priority |-> "High",
      changes_made |-> item.sql_changes ]

\* the recommendation row built for an item of `redundant`
redundant_recommendation(item) ==
    [ model |-> item.model, type |-> "redundant_ref",
      related_models |-> << item.parent, item.grandparent >>,
      refactored_file |-> item.refactored_file,
      priority |-> "High",
      changes_made |-> item.sql_changes ]

\* the outcome of a generate_refactoring_report that raised
ReportRaised(err) ==
    [ op |-> "generate_refactoring_report", raised |-> err,
      detected |-> {}, redundant |-> {}, results |-> {}, recommendations |-> {},
      files |-> << >> ]

\* what generate_refactored_sql returns for every finding of `detected`
Rewrites(detected) == [ f \in detected |-> generate_refactored_sql(f) ]

\* the outcome of a generate_refactoring_report that ran to its end:
\* `detected` is what find_redundant_refs returned, `redundant` the same list
\* after the run, `results` is results['redundant_refs'] (the same list
\* object), `files` maps a model name to the text last written to
\* refactored_models/<name>.sql; `rewrite` is Rewrites(detected)
ReportReturned(detected, rewrite, last) ==
    LET after == { finding_after(f, rewrite[f]) : f \in detected }
    IN  [ op |-> "generate_refactoring_report", raised |-> "",
          detected |-> detected,
          redundant |-> after,
          results |-> after,
          recommendations |-> { redundant_recommendation(item) : item \in after },
          files |-> [ n \in DOMAIN last |->
                        [ finding |-> last[n],
                          refactored_sql |-> rewrite[last[n]].refactored_sql ] ] ]

\* for every model name with a rewritten finding, the finding the loop
\* handled last (the order within `redundant` follows the iteration of a set)
LastWritten(detected, rewrite) ==
    LET written == { f \in detected : ~rewrite[f].none }
        names == { NameOf(f.model) : f \in written }
    IN  { last \in [ names -> written ] :
            \A n \in names : NameOf(last[n].model) = n }

\* the ends of a run that got past the three detectors: KeyError on the
\* empty metrics table, else the report
report_ends(detected, rewrite, no_metrics) ==
    IF no_metrics THEN { ReportRaised("KeyError") }
    ELSE { ReportReturned(detected, rewrite, last) :
             last \in LastWritten(detected, rewrite) }

\* generate_refactoring_report(): the outcomes of a run, each with the models
\* whose columns the run cached. The arguments are what the three detectors
\* do on the manifest: the outcome of find_redundant_refs and of
\* find_rejoined_concepts, the errors find_combinable_intermediates may end
\* in, and the models whose columns the last two cache.
generate_refactoring_report(redundant, rejoined, errors, by_rejoin, by_combinable) ==
    IF redundant.raised # ""
    THEN { [ call |-> ReportRaised(redundant.raised), cached |-> {} ] }
    ELSE IF rejoined.raised # ""
    THEN { [ call |-> ReportRaised(rejoined.raised), cached |-> ps ] :
             ps \in SUBSET by_rejoin }
    ELSE IF errors # {}
    THEN { [ call |-> ReportRaised(err), cached |-> by_rejoin \cup ps ] :
             err \in errors, ps \in SUBSET by_combinable }
    ELSE { [ call |-> end, cached |-> by_rejoin \cup by_combinable ] :
             end \in report_ends(redundant.value, Rewrites(redundant.value),
                                 \A m \in models : raw_sql[m].text = "") }

\* -------------------------------------------------------------- manifests
EdgeCount(ms, deps) == SumOver([ m \in ms |-> Cardinality(deps[m]) ], ms)

NoCall == [ op |-> "none" ]
NoArgs == [ op |-> "none" ]

\* the arguments a caller may pass for max_depth
DepthArgs == { {} } \cup { {k} : k \in 0..MaxDepth }

\* the state after __init__: any manifest within the bounds
InitManifest ==
    /\ models \in SUBSET ModelIds
    /\ depends_on \in [ models -> SUBSET DepTargets ]
    /\ EdgeCount(models, depends_on) <= MaxEdges
    /\ dependency_graph = build_dependency_graph(models, depends_on)

\* ------------------------------------------------ graph queries (SpecGraph)
QueryIds == DepTargets

CallGetModelParents ==
    \E id \in QueryIds :
      /\ call = NoCall
      /\ call' = [ op |-> "get_model_parents", id |-> id,
                   result |-> get_model_parents(id) ]
      /\ dependency_graph' = graph_after_lookups(dependency_graph, << id >>)
      /\ UNCHANGED << models, depends_on, raw_sql, column_cache, args >>

CallGetModelChildren ==
    \E id \in QueryIds :
      /\ call = NoCall
      /\ call' = [ op |-> "get_model_children", id |-> id,
                   result |-> get_model_children(id) ]
      /\ dependency_graph' = graph_after_lookups(dependency_graph, << >>)
      /\ UNCHANGED << models, depends_on, raw_sql, column_cache, args >>

CallGetAllAncestors ==
    \E id \in QueryIds, md \in DepthArgs :
      /\ call = NoCall
      /\ call' = [ op |-> "get_all_ancestors", id |-> id, max_depth |-> md,
                   result |-> get_all_ancestors(id, md),
                   expanded |-> ancestors_expansions(<< << id, 0 >> >>, << >>, md) ]
      /\ dependency_graph' = graph_after_lookups(dependency_graph, SetToSeq(ancestors_loop(<< << id, 0 >> >>, {}, {}, md).visited))
      /\ UNCHANGED << models, depends_on, raw_sql, column_cache, args >>

CallGetAllDescendants ==
    \E id \in QueryIds, md \in DepthArgs :
      /\ call = NoCall
      /\ call' = [ op |-> "get_all_descendants", id |-> id, max_depth |-> md,
                   result |-> get_all_descendants(id, md),
                   expanded |-> descendants_expansions(<< << id, 0 >> >>, << >>, md) ]
      /\ dependency_graph' = graph_after_lookups(dependency_graph, << >>)
      /\ UNCHANGED << models, depends_on, raw_sql, column_cache, args >>

InitGraph ==
    /\ InitManifest
    /\ raw_sql = [ m \in models |-> PlainSql ]
    /\ column_cache = << >>
    /\ args = NoArgs
    /\ call = NoCall

NextGraph ==
    \/ CallGetModelParents
    \/ CallGetModelChildren
    \/ CallGetAllAncestors
    \/ CallGetAllDescendants

SpecGraph == InitGraph /\ [][NextGraph]_vars

\* ------------------------------------------------- detectors (SpecDetect)
CallFindRedundantRefs ==
    /\ call = NoCall
    /\ call' = [ op |-> "find_redundant_refs",
                 raised |-> find_redundant_refs.raised,
                 result |-> find_redundant_refs.value ]
    /\ dependency_graph' = graph_after_lookups(dependency_graph, SetToSeq(models))
    /\ UNCHANGED << models, depends_on, raw_sql, column_cache, args >>

\* When the detector raises, the entries cached before the failing model
\* depend on the iteration order of the manifest: any subset.
CallFindRejoinedConcepts ==
    /\ call = NoCall
    /\ call' = [ op |-> "find_rejoined_concepts",
                 raised |-> find_rejoined_concepts.raised,
                 result |-> find_rejoined_concepts.value ]
    /\ IF find_rejoined_concepts.raised = ""
       THEN column_cache' = CacheWith(cached_by_rejoin)
       ELSE \E ps \in SUBSET cached_by_rejoin : column_cache' = CacheWith(ps)
    /\ dependency_graph' = graph_after_lookups(dependency_graph, SetToSeq(models))
    /\ UNCHANGED << models, depends_on, raw_sql, args >>

\* the SQL texts of a manifest: the text with joins for every model, but the
\* empty text for at most one model and the text without CTE for at most one
AtMostOne(S) == { {} } \cup { {x} : x \in S }

ManifestSqls(ms) ==
    { [ m \in ms |-> IF m \in empty THEN EmptySql
                     ELSE IF m \in plain THEN PlainSql
                     ELSE JoinSql ] :
        empty \in AtMostOne(ms), plain \in AtMostOne(ms) }

InitDetect ==
    /\ InitManifest
    /\ raw_sql \in ManifestSqls(models)
    /\ column_cache = << >>
    /\ args = NoArgs
    /\ call = NoCall

NextDetect ==
    \/ CallFindRedundantRefs
    \/ CallFindRejoinedConcepts

SpecDetect == InitDetect /\ [][NextDetect]_vars

\* --------------------------------------------- complexity scorer (SpecScore)
CteNamePool == << "c1", "c2", "c3", "c4", "c5", "c6" >>
RefCounts == { 0, 5, 6 }
SqlLengths == { 400, 1000, 1001 }

\* a text with n CTEs of which the first d each ref() one model, the given
\* keyword counts in its main query and cte_joins more JOINs in its CTEs
ScoreSql(n, d, joins, window_funcs, aggregations, case_statements, filters, cte_joins, length) ==
    Sql(IF n = 0 THEN "select ..." ELSE "with c1 as (...), ... select ...", FALSE,
        [ i \in 1..n |->
            Cte(CteNamePool[i], IF i <= d THEN {LeafNames[i]} ELSE {}, {}, << >>,
                FALSE, {}, {}, {}) ],
        Main({"id"}, {}, { CteNamePool[i] : i \in 1..n }, << >>,
             [ NoCounts EXCEPT !.joins = joins, !.window_funcs = window_funcs,
                               !.aggregations = aggregations,
                               !.case_statements = case_statements,
                               !.filters = filters ]),
        [ NoCounts EXCEPT !.joins = joins + cte_joins,
                          !.window_funcs = window_funcs,
                          !.aggregations = aggregations,
                          !.case_statements = case_statements,
                          !.filters = filters ],
        length)

ScoreSqls ==
    { ScoreSql(n, d, j, w, a, c, f, cj, len) :
        n \in 0..MaxCount, d \in 0..MaxMinor, j \in 0..MaxCount, w \in 0..MaxCount,
        a \in 0..MaxMinor, c \in 0..MaxMinor, f \in 0..MaxMinor,
        cj \in {0, MaxCount}, len \in SqlLengths }

CallCalculateComplexityScore ==
    /\ call = NoCall
    /\ args.sql.text # ""
    /\ call' = [ op |-> "_calculate_complexity_score",
                 result |-> calculate_complexity_score(
                              parse_sql_components(args.sql).value) ]
    /\ UNCHANGED << models, depends_on, raw_sql, dependency_graph, column_cache, args >>

\* get_model_complexity_metrics and the complex_models filter of
\* generate_refactoring_report, for one model: a model without SQL gets no row
CallComplexModels ==
    /\ call = NoCall
    /\ call' = IF args.sql.text = ""
               THEN [ op |-> "complex_models", reported |-> FALSE, result |-> FALSE ]
               ELSE [ op |-> "complex_models", reported |-> TRUE,
                      row |-> metrics_row(args.sql, args.num_refs),
                      result |-> is_complex(metrics_row(args.sql, args.num_refs)) ]
    /\ UNCHANGED << models, depends_on, raw_sql, dependency_graph, column_cache, args >>

InitScore ==
    /\ models = {}
    /\ depends_on = << >>
    /\ raw_sql = << >>
    /\ dependency_graph = << >>
    /\ column_cache = << >>
    /\ args \in [ sql : ScoreSqls \cup {EmptySql}, num_refs : RefCounts ]
    /\ call = NoCall

NextScore ==
    \/ CallCalculateComplexityScore
    \/ CallComplexModels

SpecScore == InitScore /\ [][NextScore]_vars

\* --------------------------------------- SQL refactoring (SpecRefactor)
RefactorCteNames == << "customers", "orders", "payments", "refunds" >>

\* the three shapes should_remove_cte tells apart: a constant CTE, a CTE with
\* as many filters as columns, and a CTE with more columns than filters
CteShapes ==
    { [ is_constant |-> TRUE, columns_used |-> {}, filtered |-> FALSE ],
      [ is_constant |-> FALSE, columns_used |-> {"id"}, filtered |-> TRUE ],
      [ is_constant |-> FALSE, columns_used |-> {"id"}, filtered |-> FALSE ] }

\* <name> as (select .. from {{ ref(d) }} .. [<from>] [where <from>.id is not null])
RefactorCte(name, dependencies, shape, from) ==
    Cte(name, dependencies, shape.columns_used,
        IF shape.filtered
        THEN << << "where", IF from = {} THEN "t" ELSE CHOOSE n \in from : TRUE,
                   ".", "id", "is", "not", "null" >> >>
        ELSE << >>,
        shape.is_constant, from, {}, {})

\* the CTE lists of length n: the first CTE may carry the name of the
\* grandparent model, every later one may read from the one before it
RECURSIVE RefactorCtes(_, _, _)
RefactorCtes(n, gp_name, p_name) ==
    IF n = 0 THEN { << >> }
    ELSE
      { Append(before, RefactorCte(name, dependencies, shape, from)) :
          before \in RefactorCtes(n - 1, gp_name, p_name),
          name \in { RefactorCteNames[n] } \cup (IF n = 1 THEN { gp_name } ELSE {}),
          dependencies \in { {}, { gp_name }, { gp_name, p_name } },
          shape \in CteShapes,
          from \in { {} } \cup (IF n = 1 THEN {} ELSE { { RefactorCteNames[n - 1] } }) }

\* [with <ctes>] select id from <refs, every CTE> [where id > 0]
RefactorSqls(gp_name, p_name) ==
    { Sql("with ... select id from ...", FALSE, ctes,
          Main({"id"}, refs, IF from THEN { ctes[i].name : i \in 1..Len(ctes) } ELSE {},
               where, NoCounts),
          NoCounts, 400) :
        ctes \in UNION { RefactorCtes(n, gp_name, p_name) : n \in 0..MaxCtes },
        refs \in SUBSET { gp_name, p_name },
        from \in BOOLEAN,
        where \in { << >>, << << "where", "id", ">", "0" >> >> } }

CallGenerateRefactoredSql ==
    /\ call = NoCall
    /\ call' = [ op |-> "generate_refactored_sql",
                 result |-> generate_refactored_sql(args.redundant_ref) ]
    /\ UNCHANGED << models, depends_on, raw_sql, dependency_graph, column_cache, args >>

\* the fct_orders / int_orders / stg_customers manifest, with or without an
\* entry for the grandparent, and any of the SQL texts for fct_orders
InitRefactor ==
    /\ models \in { { FctOrders, IntOrders, StgCustomers }, { FctOrders, IntOrders } }
    /\ depends_on = [ m \in models |->
                        IF m = FctOrders THEN { IntOrders, StgCustomers }
                        ELSE IF m = IntOrders THEN { StgCustomers }
                        ELSE {} ]
    /\ dependency_graph = build_dependency_graph(models, depends_on)
    /\ raw_sql \in { [ m \in models |-> IF m = FctOrders THEN sql ELSE PlainSql ] :
                       sql \in RefactorSqls(NameOf(StgCustomers), NameOf(IntOrders))
                               \cup { EmptySql } }
    /\ column_cache = << >>
    /\ args = [ redundant_ref |-> RedundantFinding(FctOrders, IntOrders, StgCustomers) ]
    /\ call = NoCall

NextRefactor ==
    \/ CallGenerateRefactoredSql

SpecRefactor == InitRefactor /\ [][NextRefactor]_vars

\* ------------------------------------------------------ report (SpecReport)
ReportIds == { FctOrders, IntOrders, StgCustomers, "model.shop.int_payments" }

\* with <c1> as (select * from {{ ref(<dep1>) }}), ... select id from <c1>, ...
\* one import CTE for every model the text references
ImportSql(deps) ==
    LET order == SetToSeq(deps)
    IN  Sql("with ... as (select * from {{ ref(...) }}) ... select id from ...", FALSE,
            [ i \in 1..Len(order) |->
                RefactorCte(RefactorCteNames[i], { NameOf(order[i]) },
                            [ is_constant |-> TRUE, columns_used |-> {},
                              filtered |-> FALSE ], {}) ],
            Main({"id"}, {}, { RefactorCteNames[i] : i \in 1..Len(order) }, << >>,
                 NoCounts),
            NoCounts, 400)

CallGenerateRefactoringReport ==
    /\ call = NoCall
    /\ \E out \in generate_refactoring_report(find_redundant_refs,
                                               find_rejoined_concepts,
                                               combinable_errors,
                                               cached_by_rejoin,
                                               cached_by_combinable) :
         /\ call' = out.call
         /\ column_cache' = CacheWith(out.cached)
    /\ dependency_graph' = graph_after_lookups(dependency_graph, SetToSeq(models))
    /\ UNCHANGED << models, depends_on, raw_sql, args >>

\* a manifest over four ids that holds fct_orders and int_orders, every model
\* with its import CTEs, or every model without SQL
InitReport ==
    /\ models \in { { FctOrders, IntOrders } \cup x :
                      x \in SUBSET (ReportIds \ { FctOrders, IntOrders }) }
    /\ depends_on \in [ models -> SUBSET ReportIds ]
    /\ EdgeCount(models, depends_on) <= MaxReportEdges
    /\ dependency_graph = build_dependency_graph(models, depends_on)
    /\ raw_sql \in { [ m \in models |-> ImportSql(depends_on[m]) ],
                     [ m \in models |-> EmptySql ] }
    /\ column_cache = << >>
    /\ args = NoArgs
    /\ call = NoCall

NextReport ==
    \/ CallGenerateRefactoringReport

SpecReport == InitReport /\ [][NextReport]_vars

\* ------------------------------------------- CTE dependencies (SpecCte)
DepCteNames == << "base", "left_side", "right_side", "shared" >>

\* what a CTE may reference: the names of the CTEs and one model
DepTargetNames == { DepCteNames[i] : i \in 1..Len(DepCteNames) } \cup { NameOf(StgCustomers) }

\* with base as (.. ref(..) ..), left_side as (..), right_side as (..),
\* shared as (..) select id from base
DepSql(deps) ==
    Sql("with base as (...), left_side as (...), right_side as (...), shared as (...) select id from base",
        FALSE,
        [ i \in 1..Len(DepCteNames) |->
            Cte(DepCteNames[i], deps[i], {}, << >>, FALSE, {}, {}, {}) ],
        Main({"id"}, {}, { DepCteNames[1] }, << >>, NoCounts),
        NoCounts, 400)

CallAnalyzeCteDependencies ==
    /\ call = NoCall
    /\ call' = [ op |-> "analyze_cte_dependencies",
                 result |-> analyze_cte_dependencies(
                              parse_sql_components(args.sql).value) ]
    /\ UNCHANGED << models, depends_on, raw_sql, dependency_graph, column_cache, args >>

InitCte ==
    /\ models = {}
    /\ depends_on = << >>
    /\ raw_sql = << >>
    /\ dependency_graph = << >>
    /\ column_cache = << >>
    /\ args \in { [ sql |-> DepSql(deps) ] :
                    deps \in { d \in [ 1..Len(DepCteNames) -> SUBSET DepTargetNames ] :
                                 SumOver([ i \in 1..Len(DepCteNames) |-> Cardinality(d[i]) ],
                                         1..Len(DepCteNames)) <= MaxCteEdges } }
    /\ call = NoCall

NextCte ==
    \/ CallAnalyzeCteDependencies

SpecCte == InitCte /\ [][NextCte]_vars

\* --------------------------------------------- similarity engine (SpecSim)
SimRefs == { "stg_customers", "stg_orders" }
SimSources == { "raw.orders" }
SimColumns == { {}, {"id"}, {"id", "amount"} }
SimCteNames == { "base", "renamed" }
SimPatterns == { {}, {"select distinct"} }

\* a text with at most one CTE and the given numbers of JOIN and GROUP BY
SimSql(ctes, joins, group_by) ==
    Sql("select ...", FALSE, ctes,
        Main({"id"}, {}, {}, << >>, [ NoCounts EXCEPT !.joins = joins ]),
        [ NoCounts EXCEPT !.joins = joins, !.group_by = group_by ], 400)

SimCtes ==
    { << >> } \cup
    { << Cte(n, deps, cols, << >>, FALSE, {}, {}, pats) >> :
        n \in SimCteNames, deps \in SUBSET SimRefs, cols \in SimColumns,
        pats \in SimPatterns }

SimModels ==
    { [ sql |-> SimSql(ctes, j, g), sources |-> srcs ] :
        ctes \in SimCtes, j \in 0..MaxMinor, g \in 0..MaxMinor,
        srcs \in SUBSET SimSources }

\* similarity = calculate_similarity(sig1, sig2) for two models of one group
CallCalculateSimilarity ==
    /\ call = NoCall
    /\ group_key(get_model_signature(args.model1))
         = group_key(get_model_signature(args.model2))
    /\ call' = [ op |-> "calculate_similarity",
                 result |-> calculate_similarity(get_model_signature(args.model1),
                                                 get_model_signature(args.model2)) ]
    /\ UNCHANGED << models, depends_on, raw_sql, dependency_graph, column_cache, args >>

InitSim ==
    /\ models = {}
    /\ depends_on = << >>
    /\ raw_sql = << >>
    /\ dependency_graph = << >>
    /\ column_cache = << >>
    /\ args \in [ model1 : SimModels, model2 : SimModels ]
    /\ call = NoCall

NextSim == CallCalculateSimilarity

SpecSim == InitSim /\ [][NextSim]_vars

\* ------------------------------------- combinable intermediates (SpecCombine)
IntPayments == "model.shop.int_payments"
IntRefunds == "model.shop.int_refunds"

CombineIds == { FctOrders, IntOrders, IntPayments, IntRefunds }

\* whether the main query holds 'partition by', and 'dense_rank()' or
\* 'row_number()'
WindowUses == [ partition_by : 0..1, ranking : 0..1 ]

\* the CTE names of the two texts: none, the same name, two different names
CteChoices ==
    { << {}, {} >>, << {"customers"}, {"customers"} >>, << {"customers"}, {"orders"} >> }

\* [with <name> as (select 1)] select id [, row_number() over (partition by ..)]
\* from ..
CombineSql(cte_names, uses) ==
    LET order == SetToSeq(cte_names)
    IN  Sql("with ... select id, ... from ...", FALSE,
            [ i \in 1..Len(order) |->
                Cte(order[i], {}, {}, << >>, TRUE, {}, {}, {}) ],
            Main({"id"}, {}, cte_names, << >>,
                 [ NoCounts EXCEPT !.partition_by = uses.partition_by,
                                   !.ranking = uses.ranking ]),
            NoCounts, 400)

CallFindCombinableIntermediates ==
    /\ call = NoCall
    /\ \E out \in find_combinable_outcomes(combinable_errors,
                                            find_combinable_intermediates,
                                            cached_by_combinable) :
         /\ call' = out.call
         /\ column_cache' = CacheWith(out.cached)
    /\ dependency_graph' = graph_after_lookups(dependency_graph, SetToSeq(models))
    /\ UNCHANGED << models, depends_on, raw_sql, args >>

\* a manifest over four ids that holds int_orders and int_payments, these two
\* with any of the texts
InitCombine ==
    /\ models \in { { IntOrders, IntPayments } \cup x :
                      x \in SUBSET { FctOrders, IntRefunds } }
    /\ depends_on \in [ models -> SUBSET CombineIds ]
    /\ EdgeCount(models, depends_on) <= MaxCombineEdges
    /\ dependency_graph = build_dependency_graph(models, depends_on)
    /\ raw_sql \in { [ m \in models |->
                          IF m = IntOrders THEN CombineSql(c[1], u1)
                          ELSE IF m = IntPayments THEN CombineSql(c[2], u2)
                          ELSE PlainSql ] :
                       c \in CteChoices, u1 \in WindowUses, u2 \in WindowUses }
    /\ column_cache = << >>
    /\ args = NoArgs
    /\ call = NoCall

NextCombine ==
    \/ CallFindCombinableIntermediates

SpecCombine == InitCombine /\ [][NextCombine]_vars

\* ------------------------------------------- similar models (SpecSimilar)
\* similarity >= similarity_threshold, the threshold in hundredths
AtLeast(similarity, hundredths) == 100 * similarity.num >= hundredths * similarity.den

\* a >= b for two similarities
NotBelow(a, b) == a.num * b.den >= b.num * a.den

\* the pairs of the double loop over a group, with group[i:] for group[i+1:]
\* (a model is compared with itself too)
group_pairs_from_i(group) ==
    Flatten([ i \in 1..Len(group) |->
                [ k \in 1..(Len(group) - i + 1) |-> << group[i], group[i + k - 1] >> ] ])

\* for i, model_id1 in enumerate(group): for model_id2 in group[i+1:]
group_pairs(group) ==
    Flatten([ i \in 1..Len(group) |->
                [ k \in 1..(Len(group) - i) |-> << group[i], group[i + k] >> ] ])

\* sorted(..., reverse=True) is stable: x goes behind the pairs that are not
\* below it
insert_by_similarity(sorted, x) ==
    LET c == Cardinality({ i \in 1..Len(sorted) :
                             NotBelow(sorted[i].total_similarity, x.total_similarity) })
    IN  SubSeq(sorted, 1, c) \o << x >> \o SubSeq(sorted, c + 1, Len(sorted))

RECURSIVE sorted_by_similarity(_)
sorted_by_similarity(similar_pairs) ==
    IF similar_pairs = << >> THEN << >>
    ELSE insert_by_similarity(
           sorted_by_similarity(SubSeq(similar_pairs, 1, Len(similar_pairs) - 1)),
           similar_pairs[Len(similar_pairs)])

\* the models that get a signature, in the order of the manifest
signed_models(manifest) == SelectSeq(manifest, LAMBDA m : m.sql.text # "")

\* model_groups.values(): the groups in the order their keys were first met
model_groups(manifest) ==
    LET signed == signed_models(manifest)
        key(m) == group_key(get_model_signature(m))
        first == { i \in 1..Len(signed) :
                     \A j \in 1..(i - 1) : key(signed[j]) # key(signed[i]) }
        starts == SelectSeq([ i \in 1..Len(signed) |-> i ], LAMBDA i : i \in first)
    IN  [ g \in 1..Len(starts) |->
            SelectSeq(signed, LAMBDA m : key(m) = key(signed[starts[g]])) ]

\* find_similar_models(similarity_threshold): the pairs in the order they are
\* returned; total_similarity is the score before round(similarity, 3), as a
\* fraction
find_similar_models(manifest, similarity_threshold) ==
    LET groups == model_groups(manifest)
        compared == Flatten([ g \in 1..Len(groups) |-> group_pairs(groups[g]) ])
        scored == [ k \in 1..Len(compared) |->
                      [ model1 |-> compared[k][1].id,
                        model2 |-> compared[k][2].id,
                        total_similarity |->
                          calculate_similarity(get_model_signature(compared[k][1]),
                                               get_model_signature(compared[k][2])) ] ]
    IN  sorted_by_similarity(
          SelectSeq(scored, LAMBDA p : AtLeast(p.total_similarity, similarity_threshold)))

SimilarIds == << FctOrders, IntOrders, StgCustomers >>

\* the texts of the models: no text, or a text with up to MaxJoins joins and
\* no CTE or one CTE over stg_customers with one or two columns
SimilarSqls ==
    { EmptySql } \cup
    { SimSql(ctes, joins, 0) :
        ctes \in { << >> } \cup
                 { << Cte("base", {"stg_customers"}, cols, << >>, FALSE, {}, {}, {}) >> :
                     cols \in { {"id"}, {"id", "amount"} } },
        joins \in 0..MaxJoins }

\* the orders in which a manifest may hold two or three of the ids
ManifestOrders ==
    { order \in UNION { [ 1..n -> { SimilarIds[i] : i \in 1..Len(SimilarIds) } ] :
                          n \in 2..Len(SimilarIds) } :
        \A i, j \in 1..Len(order) : i # j => order[i] # order[j] }

CallFindSimilarModels ==
    /\ call = NoCall
    /\ call' = [ op |-> "find_similar_models", raised |-> "",
                 result |-> find_similar_models(args.manifest,
                                                args.similarity_threshold) ]
    /\ UNCHANGED << models, depends_on, raw_sql, dependency_graph, column_cache, args >>

InitSimilar ==
    /\ \E order \in ManifestOrders :
         /\ models = { order[i] : i \in 1..Len(order) }
         /\ raw_sql \in [ models -> SimilarSqls ]
         /\ args \in { [ manifest |-> [ i \in 1..Len(order) |->
                                          [ id |-> order[i], sql |-> raw_sql[order[i]],
                                            sources |-> {} ] ],
                          similarity_threshold |-> t ] : t \in { 30, 80, 100 } }
    /\ depends_on = [ m \in models |-> {} ]
    /\ dependency_graph = build_dependency_graph(models, depends_on)
    /\ column_cache = << >>
    /\ call = NoCall

NextSimilar ==
    \/ CallFindSimilarModels

SpecSimilar == InitSimilar /\ [][NextSimilar]_vars

\* ================================================================ claims
Returned(op) == call.op = op /\ call.raised = ""

\* C1: every finding {M, P, G} returned by find_redundant_refs has
\* G in parents(P), P in parents(M) and G in parents(M).
C1_RedundantFindingsAreTriangles ==
    Returned("find_redundant_refs") =>
      \A f \in call.result :
        /\ f.grandparent \in get_model_parents(f.parent)
        /\ f.parent \in get_model_parents(f.model)
        /\ f.grandparent \in get_model_parents(f.model)

\* a finding over three different models was returned
C1_Witness ==
    /\ Returned("find_redundant_refs")
    /\ \E f \in call.result :
         Cardinality({ f.model, f.parent, f.grandparent }) = 3

\* C2: every finding {M, P, S} returned by find_rejoined_concepts has
\* children(S) = {M}, S a child of P and S a parent of M.
C2_RejoinSiblingHasSoleChild ==
    Returned("find_rejoined_concepts") =>
      \A f \in call.result :
        /\ get_model_children(f.intermediate_model) = {f.model}
        /\ f.intermediate_model \in get_model_children(f.parent)
        /\ f.intermediate_model \in get_model_parents(f.model)

\* a finding over three different models was returned
C2_Witness ==
    /\ Returned("find_rejoined_concepts")
    /\ \E f \in call.result :
         Cardinality({ f.model, f.parent, f.intermediate_model }) = 3

\* the manifest of the scenario: fct_orders -> {int_orders, stg_customers},
\* int_orders -> {stg_customers}, stg_customers without dependencies, and SQL
\* texts whose lineage names no column of stg_customers
OrdersScenario ==
    /\ models = { FctOrders, IntOrders, StgCustomers }
    /\ depends_on[FctOrders] = { IntOrders, StgCustomers }
    /\ depends_on[IntOrders] = { StgCustomers }
    /\ depends_on[StgCustomers] = {}
    /\ raw_sql[FctOrders].text # ""

\* C5: on the fct_orders / int_orders / stg_customers manifest
\* find_redundant_refs returns exactly one finding,
\* {fct_orders, int_orders, stg_customers}.
C5_OrdersScenarioOneFinding ==
    (call.op = "find_redundant_refs" /\ OrdersScenario) =>
      /\ call.raised = ""
      /\ call.result = { [ model |-> FctOrders, parent |-> IntOrders,
                           grandparent |-> StgCustomers ] }

C5_Witness ==
    /\ call.op = "find_redundant_refs"
    /\ OrdersScenario
    /\ Cardinality(call.result) = 1

NotAModel(id) == id \notin models

\* C9 as stated: for an id that is no model of the manifest, parents and
\* children are empty.
C9_UnknownIdHasNoParentsNoChildren ==
    (call.op \in { "get_model_parents", "get_model_children" } /\ NotAModel(call.id))
      => call.result = {}

\* C9 amended: for an id that is no model of the manifest, get_model_parents
\* returns the empty set, and get_model_children returns the models whose
\* dependency list names the id as a 'model.' dependency (the empty set
\* when no model names it).
C9_UnknownIdParentsEmptyChildrenAreReferrers ==
    /\ (call.op = "get_model_parents" /\ NotAModel(call.id)) => call.result = {}
    /\ (call.op = "get_model_children" /\ NotAModel(call.id)) =>
         call.result = { m \in models :
                           call.id \in depends_on[m] /\ StartsWithModel(call.id) }

C9_Witness ==
    /\ call.op = "get_model_children"
    /\ NotAModel(call.id)
    /\ call.result # {}

\* the ids reachable from id by between 1 and k edges of the relation next
RECURSIVE ReachWithin(_, _, _)
ReachWithin(next(_), ids, k) ==
    IF k = 0 THEN {}
    ELSE LET step == UNION { next(x) : x \in ids }
         IN  step \cup ReachWithin(next, step, k - 1)

Acyclic ==
    \A m \in AllModelIds : m \notin ReachWithin(get_model_parents, {m}, Len(IdNames))

\* C10: on an acyclic graph get_all_ancestors(id, max_depth=k) is the set
\* reachable by 1..k parent edges and get_all_descendants(id, max_depth=k)
\* the set reachable by 1..k child edges; without max_depth, the set
\* reachable by one or more edges.
C10_DepthBoundedTraversalIsExact ==
    Acyclic =>
      /\ call.op = "get_all_ancestors" =>
           call.result = ReachWithin(get_model_parents, {call.id},
                           IF call.max_depth = {} THEN NumIds
                           ELSE CHOOSE k \in call.max_depth : TRUE)
      /\ call.op = "get_all_descendants" =>
           call.result = ReachWithin(get_model_children, {call.id},
                           IF call.max_depth = {} THEN NumIds
                           ELSE CHOOSE k \in call.max_depth : TRUE)

\* C3: _calculate_complexity_score returns a value in [0, 100]: 5 times the
\* weighted sum, clamped above at 100 (scores are in half points).
C3_ComplexityScoreInRange ==
    call.op = "_calculate_complexity_score" =>
      /\ call.result >= 0
      /\ call.result <= 2 * ScoreCap
      /\ call.result < 2 * ScoreCap =>
           call.result = ScoreFactor * weighted_score(args.sql)

\* a score that the clamp cut down to 100
C3_Witness ==
    /\ call.op = "_calculate_complexity_score"
    /\ call.result = 2 * ScoreCap
    /\ ScoreFactor * weighted_score(args.sql) > 2 * ScoreCap

C4_SimilarityIsSymmetric ==
    call.op = "calculate_similarity" =>
      LET back == calculate_similarity(get_model_signature(args.model2),
                                       get_model_signature(args.model1))
      IN  call.result.num * back.den = back.num * call.result.den

\* two different signatures with different column sets were compared
C4_Witness ==
    /\ call.op = "calculate_similarity"
    /\ get_model_signature(args.model1).column_refs
         # get_model_signature(args.model2).column_refs
    /\ get_model_signature(args.model1).refs # get_model_signature(args.model2).refs
    /\ call.result.num > 0

\* C7: two models whose signatures coincide (same refs, sources,
\* characteristics, CTE patterns and column sets, empty or not) score at
\* least 0.95.
C7_IdenticalModelsScoreHigh ==
    ( /\ call.op = "calculate_similarity"
      /\ get_model_signature(args.model1) = get_model_signature(args.model2) )
      => 100 * call.result.num >= 95 * call.result.den

\* a rewrite that removed a CTE was returned
RefactorRemovedCte ==
    /\ call.op = "generate_refactored_sql"
    /\ ~call.result.none
    /\ call.result.removed_ctes # {}

\* C6: whenever generate_refactored_sql returns a rewrite for a finding
\* {M, P, G}, the rewritten text holds no ref to G, neither in a retained
\* CTE nor in its main query.
C6_RewriteHasNoRefToGrandparent ==
    (call.op = "generate_refactored_sql" /\ ~call.result.none) =>
      NameOf(args.redundant_ref.grandparent)
        \notin refs_of_text(call.result.refactored_sql)

\* C11: a manifest whose model-to-model dependencies contain a cycle never
\* gets past construction, so the graph a detector runs on has no cycle.
C11_NoCyclicGraphReachesDetectors ==
    call.op \in { "find_redundant_refs", "find_rejoined_concepts" } => Acyclic

\* C12: a detector raises no exception, whatever the SQL texts and the
\* dependencies of the single models are.
C12_DetectorsNeverRaise ==
    call.op \in { "find_redundant_refs", "find_rejoined_concepts" } =>
      call.raised = ""

\* C13: get_model_complexity_metrics reports a row for every model, also
\* for a model whose SQL text is empty.
C13_EveryModelHasMetricsRow ==
    call.op = "complex_models" => call.reported

\* C14: generate_refactored_sql returns a rewrite only when it removed at
\* least one CTE; with no removal-safe CTE it returns no rewrite.
C14_NoRemovedCteNoRewrite ==
    (call.op = "generate_refactored_sql" /\ ~call.result.none) =>
      call.result.removed_ctes # {}

\* C15: when the report runs to its end, every finding of find_redundant_refs
\* is in results['redundant_refs'] and has a recommendation row, and the
\* refactored_file of that row is empty exactly when generate_refactored_sql
\* returned None for the finding.
C15_EveryFindingReportedFileIffRewrite ==
    (call.op = "generate_refactoring_report" /\ call.raised = "") =>
      \A f \in call.detected :
        /\ \E item \in call.results :
             /\ item.model = f.model
             /\ item.parent = f.parent
             /\ item.grandparent = f.grandparent
        /\ \E rec \in call.recommendations :
             /\ rec.model = f.model
             /\ rec.related_models = << f.parent, f.grandparent >>
             /\ (rec.refactored_file = << >>) <=> generate_refactored_sql(f).none

\* a report over two findings on different models each, one with a rewrite
\* and one without
C15_Witness ==
    /\ call.op = "generate_refactoring_report"
    /\ call.raised = ""
    /\ \E f, g \in call.detected :
         /\ generate_refactored_sql(f).none
         /\ ~generate_refactored_sql(g).none
         /\ Cardinality({ f.model, f.parent, f.grandparent }) = 3
         /\ Cardinality({ g.model, g.parent, g.grandparent }) = 3

\* C16: the finding records of find_redundant_refs are the same after
\* generate_refactoring_report as when the detector returned them: no key
\* was added to any of them.
C16_ReportLeavesFindingsUnchanged ==
    (call.op = "generate_refactoring_report" /\ call.raised = "") =>
      \A item \in call.redundant : item.added_keys = {}

CteClosure(component, cte_name) ==
    ReachWithin(LAMBDA n : DirectDeps(component, n), { cte_name },
                Len(DepCteNames) + 1)

CteAcyclic(component) ==
    \A n \in CteNames(component) : n \notin CteClosure(component, n)

\* C18: when the direct CTE dependencies are acyclic, analyze_cte_dependencies
\* maps every CTE to the transitive closure of its direct dependencies.
C18_AcyclicCtesGetTransitiveClosure ==
    ( /\ call.op = "analyze_cte_dependencies"
      /\ CteAcyclic(parse_sql_components(args.sql).value) ) =>
      \A n \in CteNames(parse_sql_components(args.sql).value) :
        /\ n \in DOMAIN call.result
        /\ call.result[n] = CteClosure(parse_sql_components(args.sql).value, n)

\* C19: analyze_cte_dependencies ends with an entry for every CTE, whatever
\* the direct dependencies are (cyclic or not), and the lookup of a CTE that
\* is under visit returns the empty set.
C19_EveryCteGetsEntryVisitedLookupIsEmpty ==
    call.op = "analyze_cte_dependencies" =>
      \A n \in CteNames(parse_sql_components(args.sql).value) :
        /\ n \in DOMAIN call.result
        /\ call.result[n] \subseteq CteClosure(parse_sql_components(args.sql).value, n)
        /\ get_all_deps(parse_sql_components(args.sql).value, n, {n}, << >>).deps = {}

\* the dependencies were analysed for CTEs that depend on each other in a
\* cycle of two or more
C19_Witness ==
    /\ call.op = "analyze_cte_dependencies"
    /\ \E n, k \in CteNames(parse_sql_components(args.sql).value) :
         /\ n # k
         /\ k \in CteClosure(parse_sql_components(args.sql).value, n)
         /\ n \in CteClosure(parse_sql_components(args.sql).value, k)
         /\ k \in call.result[n]

\* C20: find_redundant_refs returns at most one finding for a model and a
\* grandparent: of several parents that offer the same grandparent only one
\* is reported.
C20_OneParentPerGrandparent ==
    (call.op = "generate_refactoring_report" /\ call.raised = "" /\ Acyclic) =>
      \A f, g \in call.detected :
        (f.model = g.model /\ f.grandparent = g.grandparent) => f.parent = g.parent

\* C21: find_rejoined_concepts returns a finding {M, P, S} for every model M,
\* parent P and sibling S with S a child of P, S a parent of M and M the sole
\* child of S, whatever analyze_join_necessity answers (stated for three
\* different models of an acyclic manifest).
C21_EveryRejoinCandidateReported ==
    (Returned("find_rejoined_concepts") /\ Acyclic) =>
      \A c \in rejoin_candidates :
        Cardinality({ c[1], c[2], c[3] }) = 3 =>
          RejoinFinding(c[1], c[2], c[3]) \in call.result

\* the CTEs of the model of the finding, as parse_sql_components reads them
FindingCtes == parse_sql_components(raw_sql[args.redundant_ref.model]).value.ctes

ReplaceFirstWhere(text, filter_condition) ==
    LET i == CHOOSE k \in 1..Len(text) :
                 text[k] = "where" /\ \A j \in 1..(k - 1) : text[j] # "where"
    IN  SubSeq(text, 1, i - 1) \o << "where" >> \o filter_condition \o << "and" >>
          \o SubSeq(text, i + 1, Len(text))

RECURSIVE insert_filters(_, _)
insert_filters(text, merged_filters) ==
    IF merged_filters = << >> THEN text
    ELSE insert_filters(ReplaceFirstWhere(text, Head(merged_filters)),
                        Tail(merged_filters))

\* " and ".join(merged_filters)
RECURSIVE JoinAnd(_)
JoinAnd(merged_filters) ==
    IF Len(merged_filters) = 1 THEN merged_filters[1]
    ELSE Head(merged_filters) \o << "and" >> \o JoinAnd(Tail(merged_filters))

\* the words of the WHERE part of the main query that generate_refactored_sql
\* returns: `where` is the WHERE part of the main query after the substitution
\* of the removed CTEs (no word when the main query has none), a filter is
\* str() of a Where token, the keyword `where` included
main_query_where_text(where, merged_filters) ==
    IF merged_filters = << >> THEN Flatten(where)
    ELSE IF \E k \in 1..Len(Flatten(where)) : Flatten(where)[k] = "where"
    THEN insert_filters(Flatten(where), merged_filters)
    ELSE Flatten(where) \o << "where" >> \o JoinAnd(merged_filters)

\* the parts of a sequence of words between the words `and`
RECURSIVE SplitAnd(_, _)
SplitAnd(words, part) ==
    IF words = << >> THEN << part >>
    ELSE IF Head(words) = "and" THEN << part >> \o SplitAnd(Tail(words), << >>)
    ELSE SplitAnd(Tail(words), Append(part, Head(words)))

\* the conjuncts of a WHERE clause: what stands between its keyword and the
\* ANDs
Conjuncts(clause) == IF clause = << >> THEN << >> ELSE SplitAnd(Tail(clause), << >>)

\* the WHERE part of the main query of the model of the finding, the removed
\* CTEs substituted
FindingWhere ==
    LET main == parse_sql_components(raw_sql[args.redundant_ref.model]).value.main_query
    IN  [ k \in 1..Len(main.where) |->
            SubstituteWords(main.where[k], call.result.removed_ctes,
                            call.result.use_parent) ]

C24_CombinableFindingsFitTheirPattern ==
    Returned("find_combinable_intermediates") =>
      \A f \in call.result :
        /\ IsIntermediate(f.model)
        /\ IsIntermediate(f.related_model)
        /\ f.pattern \in { "single_child", "single_parent" }
        /\ f.pattern = "single_child" =>
             get_model_children(f.model) = { f.related_model }
        /\ f.pattern = "single_parent" =>
             /\ get_model_parents(f.model) = { f.related_model }
             /\ Cardinality(get_model_children(f.related_model)) <= 2

\* findings of both patterns were returned, the single_parent one for a
\* parent with two children
C24_Witness ==
    /\ Returned("find_combinable_intermediates")
    /\ \E f, g \in call.result :
         /\ f.pattern = "single_child"
         /\ g.pattern = "single_parent"
         /\ Cardinality(get_model_children(g.related_model)) = 2

\* str(sql.main_query) holds 'partition by', 'dense_rank()' or 'row_number()'
UsesWindowOrRanking(model_id) ==
    LET counts == parse_sql_components(raw_sql[model_id]).value.main_query.counts
    IN  counts.partition_by > 0 \/ counts.ranking > 0

CteNamesCollide(model1_id, model2_id) ==
    CteNames(parse_sql_components(raw_sql[model1_id]).value)
      \cap CteNames(parse_sql_components(raw_sql[model2_id]).value) # {}

\* C25: a candidate pair is not feasible exactly when the CTE names of the two
\* models collide or both models use window partitioning or ranking (a pair
\* where one model only uses them is feasible), and a pair that is not
\* feasible for the second reason is still in the list the detector returns.
C25_InfeasibleIffCollisionOrBothUseWindows ==
    Returned("find_combinable_intermediates") =>
      \A c \in combinable_candidates :
        /\ ~analyze_combination_feasibility(c.model, c.related_model).value.feasible
             <=> \/ CteNamesCollide(c.model, c.related_model)
                 \/ /\ UsesWindowOrRanking(c.model)
                    /\ UsesWindowOrRanking(c.related_model)
        /\ ( /\ ~CteNamesCollide(c.model, c.related_model)
             /\ UsesWindowOrRanking(c.model)
             /\ UsesWindowOrRanking(c.related_model) ) => c \in call.result

\* the signature of the model of the manifest with the given id
SignatureOf(id) ==
    get_model_signature(
      args.manifest[CHOOSE i \in 1..Len(args.manifest) : args.manifest[i].id = id])

\* the bucket key (reference count, source count, join count, has-group-by,
\* has-window-function)
BucketKey(signature) ==
    << Cardinality(signature.refs), Cardinality(signature.sources),
       signature.characteristics.joins,
       signature.characteristics.group_by > 0,
       signature.characteristics.window_funcs > 0 >>

\* C26: the two models of a pair returned by find_similar_models have the
\* same reference count, source count, join count, has-group-by and
\* has-window-function.
C26_ReportedPairsShareTheBucketKey ==
    call.op = "find_similar_models" =>
      \A k \in 1..Len(call.result) :
        BucketKey(SignatureOf(call.result[k].model1))
          = BucketKey(SignatureOf(call.result[k].model2))

\* the position of a model id in the ascending lexicographic order of the ids
IdRank(id) == CHOOSE i \in 1..Len(SimilarIds) : SimilarIds[i] = id

\* (a1, a2) is not behind (b1, b2) in the lexicographic order of pairs of ids
LexNotBehind(a1, a2, b1, b2) ==
    \/ IdRank(a1) < IdRank(b1)
    \/ IdRank(a1) = IdRank(b1) /\ IdRank(a2) <= IdRank(b2)

\* the unordered pairs of models with a text that share the grouping key and
\* score at or above the threshold
SameBucketPairsAtThreshold ==
    LET signed == signed_models(args.manifest)
    IN  { {signed[i].id, signed[j].id} : << i, j >> \in
            { p \in (1..Len(signed)) \X (1..Len(signed)) :
                /\ p[1] < p[2]
                /\ group_key(get_model_signature(signed[p[1]]))
                     = group_key(get_model_signature(signed[p[2]]))
                /\ AtLeast(calculate_similarity(get_model_signature(signed[p[1]]),
                                                get_model_signature(signed[p[2]])),
                           args.similarity_threshold) } }

C27_ExactlyTheSameBucketPairs ==
    call.op = "find_similar_models" =>
      { {call.result[k].model1, call.result[k].model2} : k \in 1..Len(call.result) }
        = SameBucketPairsAtThreshold

C27_NonIncreasingScore ==
    call.op = "find_similar_models" =>
      \A k, l \in 1..Len(call.result) :
        k < l => NotBelow(call.result[k].total_similarity, call.result[l].total_similarity)

\* C27: find_similar_models returns exactly the same-bucket pairs whose score
\* is at or above the threshold, by non-increasing score, and pairs of equal
\* score in ascending lexicographic order of (model1, model2).
C27_SortedByScoreThenLexicographic ==
    /\ C27_ExactlyTheSameBucketPairs
    /\ C27_NonIncreasingScore
    /\ call.op = "find_similar_models" =>
         \A k, l \in 1..Len(call.result) :
           ( /\ k < l
             /\ NotBelow(call.result[l].total_similarity, call.result[k].total_similarity) )
           => LexNotBehind(call.result[k].model1, call.result[k].model2,
                           call.result[l].model1, call.result[l].model2)

\* C30: in the list returned by find_similar_models the two models of a pair
\* are distinct, and no unordered pair of models appears twice.
C30_PairsDistinctAndUnique ==
    call.op = "find_similar_models" =>
      /\ \A k \in 1..Len(call.result) : call.result[k].model1 # call.result[k].model2
      /\ \A k, l \in 1..Len(call.result) :
           {call.result[k].model1, call.result[k].model2}
             = {call.result[l].model1, call.result[l].model2} => k = l

\* three models of one group, every pair of them returned
C30_Witness ==
    /\ Returned("find_similar_models")
    /\ Len(call.result) = 3
    /\ \E k \in 1..3 : IdRank(call.result[k].model1) > IdRank(call.result[k].model2)

\* the findings of the report for which generate_refactored_sql gave a rewrite
RewrittenFindings ==
    { item \in call.redundant : "refactored_file" \in item.added_keys }

\* C28: after generate_refactoring_report every redundant-reference finding
\* that was rewritten has its own rewritten-SQL artifact: the files written
\* are as many as the rewritten findings, and each of these findings is the
\* one some file holds (stated for manifests without cycles).
C28_OneArtifactPerRewrittenFinding ==
    (Returned("generate_refactoring_report") /\ Acyclic) =>
      /\ Cardinality(DOMAIN call.files) = Cardinality(RewrittenFindings)
      /\ \A item \in RewrittenFindings :
           \E n \in DOMAIN call.files :
             /\ call.files[n].finding.model = item.model
             /\ call.files[n].finding.parent = item.parent
             /\ call.files[n].finding.grandparent = item.grandparent

\* the ids a traversal from the queried id can meet: the id, the models with
\* dependencies and their dependencies
GraphIds ==
    {call.id} \cup DOMAIN dependency_graph
              \cup UNION { dependency_graph[m] : m \in DOMAIN dependency_graph }

\* C29: on every graph, cyclic or self-referencing ones included, and with or
\* without max_depth, get_all_ancestors and get_all_descendants end after
\* expanding each model at most once: no id is expanded twice, the expansions
\* are at most the ids of the graph, and the result is what these expansions
\* collected.
C29_TraversalExpandsEachModelOnce ==
    /\ call.op \in { "get_all_ancestors", "get_all_descendants" } =>
         /\ \A i, j \in 1..Len(call.expanded) :
              call.expanded[i] = call.expanded[j] => i = j
         /\ SeqRange(call.expanded) \subseteq GraphIds
         /\ Len(call.expanded) <= Cardinality(GraphIds)
    /\ call.op = "get_all_ancestors" =>
         call.result = UNION { get_model_parents(x) : x \in SeqRange(call.expanded) }
    /\ call.op = "get_all_descendants" =>
         call.result = UNION { get_model_children(x) : x \in SeqRange(call.expanded) }

\* an unbounded query for the ancestors of a model that lies on a cycle of
\* two or more models
C29_Witness ==
    /\ call.op = "get_all_ancestors"
    /\ call.max_depth = {}
    /\ call.id \in call.result
    /\ call.id \notin get_model_parents(call.id)
    /\ Len(call.expanded) >= 2

====
